---- MODULE Spec2Model ----
(***************************************************************************)
(* A model of the GitHub Backend API proxy: src/server.js (the Express     *)
(* application, called the "main" deployment here) and the second,         *)
(* reduced application in src/netlify/functions/server.js lines 12-198     *)
(* (the "netlify" deployment).                                             *)
(*                                                                         *)
(* A request walks through                                                 *)
(*   idle -> received -> (parsed) -> handler -> awaiting -> resumed -> done *)
(* body parsing, the authenticate middleware, the route handler up to its  *)
(* await, the upstream's answer, and the handler's continuation.           *)
(***************************************************************************)
EXTENDS Integers, Sequences, FiniteSets, TLC

\* ------------------------------------------------------------------ bounds

\* Request slots (clients whose requests may be in progress).
NumSlots == 2
\* Longest per_page string tried on the search route.
MaxLen == 3
\* Longest sequence the upstream returns.
MaxItems == 2

Slots == 1 .. NumSlots

\* ------------------------------------------------- JavaScript value helpers

\* The JavaScript value undefined (an absent header, query parameter, body
\* field or environment variable).
Undefined == "<undefined>"

\* ToBoolean on strings and undefined: undefined and "" are falsy.
Truthy(v) == v \notin {Undefined, ""}

\* a || b
Or(a, b) == IF Truthy(a) THEN a ELSE b

\* obj[k] of a JavaScript object: undefined when the key is absent.
Get(obj, k) == IF k \in DOMAIN obj THEN obj[k] ELSE Undefined

\* The empty object {}.
EmptyObj == << >>

\* { ...a, ...b }: the keys of both, b's value where both have the key.
Spread(a, b) ==
    [k \in DOMAIN a \cup DOMAIN b |-> IF k \in DOMAIN b THEN b[k] ELSE a[k]]

\* The field k: v of an object literal as JSON keeps it: dropped when the
\* value is undefined.
Field(k, defined, v) == IF defined THEN (k :> v) ELSE EmptyObj

Has(obj, k) == k \in DOMAIN obj

Min(a, b) == IF a < b THEN a ELSE b

\* Strings that the code parses are sequences of one-character strings.
DigitChars == {"0", "1", "2", "3", "4", "5", "6", "7", "8", "9"}

DigitVal(c) ==
    CASE c = "0" -> 0 [] c = "1" -> 1 [] c = "2" -> 2 [] c = "3" -> 3
      [] c = "4" -> 4 [] c = "5" -> 5 [] c = "6" -> 6 [] c = "7" -> 7
      [] c = "8" -> 8 [] c = "9" -> 9

NaN == [nan |-> TRUE, n |-> 0]
Num(n) == [nan |-> FALSE, n |-> n]

RECURSIVE SkipSpace(_)
SkipSpace(s) ==
    IF s # << >> /\ Head(s) = " " THEN SkipSpace(Tail(s)) ELSE s

\* The value of the longest prefix of decimal digits of s, acc being the
\* value of the digits read so far.
RECURSIVE DigitsPrefix(_, _)
DigitsPrefix(s, acc) ==
    IF s # << >> /\ Head(s) \in DigitChars
    THEN DigitsPrefix(Tail(s), 10 * acc + DigitVal(Head(s)))
    ELSE acc

\* parseInt(s) of a string: leading white space is skipped, then an optional
\* sign, then the longest run of decimal digits; NaN when there is no digit.
parseIntStr(s) ==
    LET t == SkipSpace(s)
        neg == t # << >> /\ Head(t) = "-"
        u == IF t # << >> /\ Head(t) \in {"-", "+"} THEN Tail(t) ELSE t
    IN  IF u = << >> \/ Head(u) \notin DigitChars
        THEN NaN
        ELSE Num((IF neg THEN -1 ELSE 1) * DigitsPrefix(u, 0))

\* parseInt(obj[k]): parseInt(undefined) is NaN.
parseInt(obj, k) == IF k \in DOMAIN obj THEN parseIntStr(obj[k]) ELSE NaN

\* p || d for a number p: NaN and 0 are falsy.
NumOr(p, d) == IF p.nan \/ p.n = 0 THEN d ELSE p.n

\* ------------------------------------------------------------ environment

DefaultPassword == "change-this-secure-password"
NetlifyDefaultPassword == "your-secure-password"

\* Values process.env may hold for BACKEND_PASSWORD, API_KEY and ACESS_TOKEN.
PasswordEnv == {Undefined, "", "s3cret"}
ApiKeyEnv == {Undefined, "", "k3y"}
TokenEnv == {Undefined, "ghp_token"}

Variants == {"main", "netlify"}

VARIABLES
    variant,          \* which application serves: "main" or "netlify"
    BACKEND_PASSWORD, \* the configured password
    GITHUB_TOKEN,     \* process.env.ACESS_TOKEN
    API_KEY,          \* process.env.API_KEY
    octokit,          \* TRUE iff the upstream client was constructed
    pc,               \* per slot: where its request is
    req,              \* per slot: the inbound request
    authMethod,       \* per slot: req.authMethod
    calls,            \* per slot: the outbound calls made for the request
    outcome,          \* per slot: the answer of the outbound call
    resp,             \* per slot: the response sent
    hits,             \* the rate limiter's count of the client's requests
    signal            \* the termination signal the process received, if any

config == <<variant, BACKEND_PASSWORD, GITHUB_TOKEN, API_KEY, octokit>>
process == <<hits, signal>>
vars == <<variant, BACKEND_PASSWORD, GITHUB_TOKEN, API_KEY, octokit,
          pc, req, authMethod, calls, outcome, resp, hits, signal>>


\* ------------------------------------------------------------ the requests

\* All sequences over S of length at most n.
RECURSIVE SeqsUpTo(_, _)
SeqsUpTo(S, n) ==
    IF n = 0 THEN {<< >>}
    ELSE LET shorter == SeqsUpTo(S, n - 1)
         IN  shorter \cup {Append(q, c) : q \in shorter, c \in S}

\* The objects with no key, or with the key k and a value of Vs.
Opt(k, Vs) == {EmptyObj} \cup {(k :> v) : v \in Vs}

\* The objects made of one object of each of the two sets.
Both(A, B) == {Spread(a, b) : a \in A, b \in B}

PasswordsTried == {"", "s3cret", DefaultPassword, NetlifyDefaultPassword}
ApiKeysTried == {"", "k3y", "zzz"}

\* Every way of presenting, or not, a password and an API key.
AllCredHeaders ==
    Both(Opt("x-password", PasswordsTried), Opt("x-api-key", ApiKeysTried))
AllCredQueries ==
    Both(Opt("password", PasswordsTried), Opt("api_key", ApiKeysTried))

\* The credentials (headers, query) sent with the requests that exercise
\* the handlers: a password or a key in a header, a password in the query.
FewCreds ==
    {<<("x-password" :> "s3cret"), EmptyObj>>,
     <<("x-password" :> NetlifyDefaultPassword), EmptyObj>>,
     <<("x-api-key" :> "k3y"), EmptyObj>>,
     <<EmptyObj, ("password" :> DefaultPassword)>>}

\* Credentials in the headers alone, or in the query alone.
OneSidedCreds ==
    {<<h, EmptyObj>> : h \in AllCredHeaders}
    \cup {<<EmptyObj, q>> : q \in AllCredQueries}

\* Credentials in the headers and in the query at once.
TwoSidedCreds == AllCredHeaders \X AllCredQueries

Owner == "octo"
Repo == "hello"
RepoParams == [owner |-> Owner, repo |-> Repo]
IssueParams == [owner |-> Owner, repo |-> Repo, issue_number |-> <<"7">>]

PerPageAlphabet == {"0", "1", "5", "-", "a"}
PerPageStrings == SeqsUpTo(PerPageAlphabet, MaxLen)
PerPageSamples ==
    {<<"5", "0", "0">>, <<"1", "0", "0">>, <<"0">>, <<"7">>, <<"a">>,
     <<"-", "5">>}

Methods == {"GET", "POST", "PUT", "PATCH", "DELETE"}

\* The routes the two applications register, and two paths neither does.
GetPaths ==
    {"/", "/status", "/health", "/github/user", "/github/user/repos",
     "/github/user/orgs", "/github/repos", "/github/repo/:owner/:repo",
     "/github/repo/:owner/:repo/contents/:path",
     "/github/repo/:owner/:repo/commits",
     "/github/repo/:owner/:repo/branches",
     "/github/repo/:owner/:repo/issues",
     "/github/repo/:owner/:repo/issues/:issue_number",
     "/github/search/repos", "/github/rate-limit", "/github/api/*",
     "/github/user/gists", "/nowhere"}

ParamsOf(path) ==
    CASE path \in {"/github/repo/:owner/:repo",
                   "/github/repo/:owner/:repo/commits",
                   "/github/repo/:owner/:repo/branches",
                   "/github/repo/:owner/:repo/issues"} -> RepoParams
      [] path = "/github/repo/:owner/:repo/issues/:issue_number" -> IssueParams
      [] path = "/github/repo/:owner/:repo/contents/:path" ->
            [owner |-> Owner, repo |-> Repo, path |-> "README.md"]
      [] path = "/github/api/*" -> [tail |-> <<"user">>]
      [] OTHER -> EmptyObj

Request(m, p, ps, h, q, b) ==
    [method |-> m, path |-> p, params |-> ps, headers |-> h, query |-> q,
     body |-> b, malformed |-> FALSE]

\* Every method and path tried.
Targets ==
    {<<"GET", p>> : p \in GetPaths}
    \cup ({"POST", "PATCH"} \X
          {"/github/repo/:owner/:repo/issues",
           "/github/repo/:owner/:repo/issues/:issue_number",
           "/github/api/*", "/github/user"})

\* Requests that try the credentials: one-sided on every route, every
\* combination of header and query credentials on three of them.
GateRequests ==
    {Request(t[1], t[2], ParamsOf(t[2]), c[1], c[2], EmptyObj) :
        t \in Targets, c \in OneSidedCreds}
    \cup
    {Request(t[1], t[2], ParamsOf(t[2]), c[1], c[2], EmptyObj) :
        t \in {<<"GET", "/github/user">>,
               <<"POST", "/github/repo/:owner/:repo/issues">>,
               <<"DELETE", "/github/api/*">>},
        c \in TwoSidedCreds}

\* Requests whose body the body parser cannot parse.
MalformedRequests ==
    {[Request("POST", "/github/repo/:owner/:repo/issues", RepoParams, c[1],
              c[2], EmptyObj) EXCEPT !.malformed = TRUE] : c \in FewCreds}

ListQueries ==
    Both(Opt("per_page", PerPageSamples),
         Both(Opt("sort", {"created"}), Opt("state", {"closed"})))

IssueBodies ==
    Both(Opt("title", {"", "Bug"}),
      Both(Opt("body", {"text"}),
        Both(Opt("labels", {"bug"}),
          Both(Opt("assignees", {"alice"}), Opt("milestone", {"1"})))))

\* Every per_page string with a query term; a few without one.
SearchQueries ==
    Both({("q" :> "tetris")}, Opt("per_page", PerPageStrings))
    \cup Both(Opt("q", {""}), Opt("per_page", PerPageSamples))

ApiTails == {<<"user">>, <<"repos", "/", "octo", "/", "hello">>}
ApiQueries ==
    Both(Opt("url", {<<"/", "orgs", "/", "evil">>}),
      Both(Opt("method", {"DELETE"}),
        Both(Opt("data", {("name" :> "q")}),
             Opt("per_page", {<<"5", "0", "0">>}))))
ApiBodies == {EmptyObj, ("name" :> "n")}

\* Requests that exercise the handlers behind the gate.
ForwardRequests ==
    {Request("GET", p, ParamsOf(p), c[1], Spread(c[2], q), EmptyObj) :
        p \in {"/github/user/repos", "/github/user/orgs", "/github/repos",
               "/github/repo/:owner/:repo/commits",
               "/github/repo/:owner/:repo/branches",
               "/github/repo/:owner/:repo/issues"},
        c \in FewCreds, q \in ListQueries}
    \cup
    {Request("GET", "/github/repo/:owner/:repo/contents/:path",
             [owner |-> Owner, repo |-> Repo, path |-> pth], c[1],
             Spread(c[2], q), EmptyObj) :
        pth \in {Undefined, "src"}, c \in FewCreds, q \in Opt("ref", {"dev"})}
    \cup
    {Request("POST", "/github/repo/:owner/:repo/issues", RepoParams, c[1],
             c[2], b) : c \in FewCreds, b \in IssueBodies}
    \cup
    {Request("PATCH", "/github/repo/:owner/:repo/issues/:issue_number",
             IssueParams, c[1], c[2], b) :
        c \in FewCreds, b \in Opt("state", {"closed"})}
    \cup
    {Request("GET", "/github/search/repos", EmptyObj, c[1], Spread(c[2], q),
             EmptyObj) :
        c \in {<<("x-password" :> "s3cret"), EmptyObj>>,
               <<EmptyObj, ("password" :> DefaultPassword)>>},
        q \in SearchQueries}
    \cup
    {Request(m, "/github/api/*", [tail |-> t], c[1], Spread(c[2], q), b) :
        m \in Methods, t \in ApiTails, c \in FewCreds, q \in ApiQueries,
        b \in ApiBodies}

Requests == GateRequests \cup MalformedRequests \cup ForwardRequests

\* ------------------------------------------------------------ the upstream

Items == {"a", "b"}

\* What the upstream API returns: a sequence of items, or a single object.
ArrayPayload(items) == [isArray |-> TRUE, items |-> items]
ObjectPayload == [isArray |-> FALSE, items |-> << >>]
Payloads == {ArrayPayload(q) : q \in SeqsUpTo(Items, MaxItems)} \cup {ObjectPayload}

\* count: data.length (an object has no length, and JSON drops the field)
CountField(data) == Field("count", data.isArray, Len(data.items))

\* A failed outbound call: a RequestError carrying the upstream's status, or
\* an error without one (the network failed).
Failures ==
    {[ok |-> FALSE, hasStatus |-> TRUE, status |-> 401,
      message |-> "Bad credentials", data |-> ObjectPayload],
     [ok |-> FALSE, hasStatus |-> TRUE, status |-> 404,
      message |-> "Not Found", data |-> ObjectPayload],
     [ok |-> FALSE, hasStatus |-> FALSE, status |-> 0,
      message |-> "connect ECONNREFUSED", data |-> ObjectPayload]}

Success(d) ==
    [ok |-> TRUE, hasStatus |-> TRUE, status |-> 200, message |-> "", data |-> d]

\* The operations whose upstream payload is a sequence, and those whose
\* payload is a sequence or an object (a directory or a file; any path).
SequenceOps ==
    {"repos.listForAuthenticatedUser", "orgs.listForAuthenticatedUser",
     "repos.listCommits", "repos.listBranches", "issues.listForRepo"}
EitherOps == {"repos.getContent", "request"}

PayloadsOf(op) ==
    IF op \in SequenceOps THEN Payloads \ {ObjectPayload}
    ELSE IF op \in EitherOps THEN Payloads
    ELSE {ObjectPayload}

\* How the outbound call op may end.
OutcomesOf(op) == {Success(d) : d \in PayloadsOf(op)} \cup Failures

NoOutcome ==
    [ok |-> FALSE, hasStatus |-> FALSE, status |-> 0, message |-> "",
     data |-> ObjectPayload]
NoRequest == Request("", "", EmptyObj, EmptyObj, EmptyObj, EmptyObj)
NoResponse == [status |-> 0, body |-> EmptyObj]

\* new Date().toISOString()
Timestamp == "2024-01-01T00:00:00.000Z"

\* res.status(st).json(body)
Response(st, body) == [status |-> st, body |-> body]

\* error.status || 500
StatusOr500(error) ==
    IF error.hasStatus /\ error.status # 0 THEN error.status ELSE 500

\* status: error.status
StatusField(error) == Field("status", error.hasStatus, error.status)

\* -------------------------------------------------------------- start-up

\* process.env.BACKEND_PASSWORD || default
ConfiguredPassword(v, env) ==
    Or(env, IF v = "main" THEN DefaultPassword ELSE NetlifyDefaultPassword)

\* The process after start-up, before any request and any signal.
Started ==
    /\ variant \in Variants
    /\ \E env \in PasswordEnv : BACKEND_PASSWORD = ConfiguredPassword(variant, env)
    /\ GITHUB_TOKEN \in TokenEnv
    /\ API_KEY \in (IF variant = "main" THEN ApiKeyEnv ELSE {Undefined})
    /\ octokit = Truthy(GITHUB_TOKEN)
    /\ pc = [s \in Slots |-> "idle"]
    /\ req = [s \in Slots |-> NoRequest]
    /\ authMethod = [s \in Slots |-> Undefined]
    /\ calls = [s \in Slots |-> << >>]
    /\ outcome = [s \in Slots |-> NoOutcome]
    /\ resp = [s \in Slots |-> NoResponse]
    /\ signal = Undefined

\* A fresh process: the limiter has counted nothing yet.
Init == Started /\ hits = 0

\* A client sends a request.
Arrive(s) ==
    /\ pc[s] = "idle"
    /\ \E r \in Requests : req' = [req EXCEPT ![s] = r]
    /\ pc' = [pc EXCEPT ![s] = "received"]
    /\ UNCHANGED <<config, process, authMethod, calls, outcome, resp>>

\* Sending the response ends the request.
Send(s, response) ==
    /\ resp' = [resp EXCEPT ![s] = response]
    /\ pc' = [pc EXCEPT ![s] = "done"]

\* Error handling middleware.
errorHandler(v, error) ==
    IF v = "netlify"
    THEN Response(500, [error |-> "Internal server error"])
    ELSE IF error.name = "ValidationError"
    THEN Response(400, [error |-> "Validation Error", message |-> error.message,
                        timestamp |-> Timestamp])
    ELSE IF error.hasStatus /\ error.status # 0
    THEN Response(error.status, [error |-> Or(error.message, "An error occurred"),
                                 timestamp |-> Timestamp])
    ELSE Response(500, [error |-> "Internal Server Error",
                        message |-> "Something went wrong on our end",
                        timestamp |-> Timestamp])

\* What the JSON body parser raises on a body it cannot parse.
ParseError ==
    [name |-> "SyntaxError", hasStatus |-> TRUE, status |-> 400,
     message |-> "Unexpected token in JSON"]

\* Body parsing middleware: passes the request on, or raises to errorHandler.
bodyParser(s) ==
    /\ pc[s] = "received"
    /\ IF req[s].malformed
       THEN Send(s, errorHandler(variant, ParseError))
       ELSE /\ pc' = [pc EXCEPT ![s] = "routed"]
            /\ UNCHANGED resp
    /\ UNCHANGED <<config, process, req, authMethod, calls, outcome>>


\* ---------------------------------------------------------------- routing

\* app.get / app.post / app.patch / app.all of src/server.js: the handler
\* Express dispatches a method and path to ("ALL" matches every method).
MainRoutes ==
    {<<"GET", "/", "root">>, <<"GET", "/status", "status">>,
     <<"GET", "/health", "health">>,
     <<"GET", "/github/user", "user">>,
     <<"GET", "/github/user/repos", "userRepos">>,
     <<"GET", "/github/user/orgs", "userOrgs">>,
     <<"GET", "/github/repos", "repos">>,
     <<"GET", "/github/repo/:owner/:repo", "repo">>,
     <<"GET", "/github/repo/:owner/:repo/contents/:path", "contents">>,
     <<"GET", "/github/repo/:owner/:repo/commits", "commits">>,
     <<"GET", "/github/repo/:owner/:repo/branches", "branches">>,
     <<"GET", "/github/repo/:owner/:repo/issues", "issues">>,
     <<"GET", "/github/repo/:owner/:repo/issues/:issue_number", "issue">>,
     <<"POST", "/github/repo/:owner/:repo/issues", "createIssue">>,
     <<"PATCH", "/github/repo/:owner/:repo/issues/:issue_number", "updateIssue">>,
     <<"GET", "/github/search/repos", "searchRepos">>,
     <<"GET", "/github/rate-limit", "rateLimit">>,
     <<"ALL", "/github/api/*", "api">>}

\* The routes of src/netlify/functions/server.js.
NetlifyRoutes ==
    {<<"GET", "/", "root">>, <<"GET", "/status", "status">>,
     <<"GET", "/github/user", "user">>,
     <<"GET", "/github/repos", "repos">>,
     <<"GET", "/github/repo/:owner/:repo", "repo">>,
     <<"GET", "/github/repo/:owner/:repo/issues", "issues">>,
     <<"POST", "/github/repo/:owner/:repo/issues", "createIssue">>,
     <<"ALL", "/github/api/*", "api">>}

RoutesOf(v) == IF v = "main" THEN MainRoutes ELSE NetlifyRoutes

Matches(v, r) ==
    {rt \in RoutesOf(v) : rt[2] = r.path /\ rt[1] \in {r.method, "ALL"}}

\* The handler of the route a request matches; "notFound" when none does.
Handler(v, r) ==
    IF Matches(v, r) = {} THEN "notFound"
    ELSE (CHOOSE rt \in Matches(v, r) : TRUE)[3]

\* The routes registered without the authenticate middleware.
PublicHandlers == {"root", "status", "health", "notFound"}

\* ------------------------------------------------------- the Access Gate

\* The password read from the header alone.
SuppliedPassword_HeaderOnly(r) == Get(r.headers, "x-password")

\* req.headers['x-password'] || req.query.password
SuppliedPassword(r) == Or(Get(r.headers, "x-password"), Get(r.query, "password"))

\* req.headers['x-api-key'] || req.query.api_key
SuppliedApiKey(r) == Or(Get(r.headers, "x-api-key"), Get(r.query, "api_key"))

\* password && password === BACKEND_PASSWORD
PasswordValid(password, configured) ==
    Truthy(password) /\ password = configured

\* The comparison alone, without the two truthiness tests.
ApiKeyValid_BareEquality(apiKey, configured) == apiKey = configured

\* API_KEY && apiKey && apiKey === API_KEY
ApiKeyValid(apiKey, configured) ==
    Truthy(configured) /\ Truthy(apiKey) /\ apiKey = configured

UnauthorizedResponse ==
    Response(401,
        [error |-> "Unauthorized: Invalid credentials",
         message |-> "Provide password via x-password header/query or API key via x-api-key header/query",
         timestamp |-> Timestamp])

\* Authentication middleware of src/server.js.
authenticate(s) ==
    /\ variant = "main"
    /\ pc[s] = "routed"
    /\ Handler(variant, req[s]) \notin PublicHandlers
    /\ IF PasswordValid(SuppliedPassword(req[s]), BACKEND_PASSWORD)
       THEN /\ authMethod' = [authMethod EXCEPT ![s] = "password"]
            /\ pc' = [pc EXCEPT ![s] = "handler"]
            /\ UNCHANGED resp
       ELSE IF ApiKeyValid(SuppliedApiKey(req[s]), API_KEY)
       THEN /\ authMethod' = [authMethod EXCEPT ![s] = "api_key"]
            /\ pc' = [pc EXCEPT ![s] = "handler"]
            /\ UNCHANGED resp
       ELSE /\ Send(s, UnauthorizedResponse)
            /\ UNCHANGED authMethod
    /\ UNCHANGED <<config, process, req, calls, outcome>>

NetlifyUnauthorizedResponse ==
    Response(401, [error |-> "Unauthorized: Invalid password"])

\* Password authentication middleware of src/netlify/functions/server.js.
netlify_authenticate(s) ==
    /\ variant = "netlify"
    /\ pc[s] = "routed"
    /\ Handler(variant, req[s]) \notin PublicHandlers
    /\ IF ~ PasswordValid(SuppliedPassword(req[s]), BACKEND_PASSWORD)
       THEN Send(s, NetlifyUnauthorizedResponse)
       ELSE /\ pc' = [pc EXCEPT ![s] = "handler"]
            /\ UNCHANGED resp
    /\ UNCHANGED <<config, process, req, authMethod, calls, outcome>>

\* ------------------------------------------------------ the public routes

\* A route without authenticate: the handler answers at once.
Public(s, v, h, response) ==
    /\ variant = v
    /\ pc[s] = "routed"
    /\ Handler(variant, req[s]) = h
    /\ Send(s, response)
    /\ UNCHANGED <<config, process, req, authMethod, calls, outcome>>

\* The documentation that app.get('/') answers with.
RootResponse ==
    Response(200, [name |-> "GitHub Backend API", version |-> "1.0.0",
                   status |-> "running", timestamp |-> Timestamp])

\* app.get('/'): the documentation.
root(s) == Public(s, "main", "root", RootResponse)

\* app.get('/status')
status(s) ==
    Public(s, "main", "status",
        Response(200, [status |-> "healthy", timestamp |-> Timestamp,
                       github_token_configured |-> Truthy(GITHUB_TOKEN),
                       api_key_configured |-> Truthy(API_KEY)]))

\* The checks of app.get('/health').
HealthChecks ==
    [server |-> "ok",
     github_api |-> IF Truthy(GITHUB_TOKEN) THEN "configured" ELSE "not_configured",
     authentication |-> IF BACKEND_PASSWORD # DefaultPassword
                        THEN "secure" ELSE "default_password"]

\* Healthy whatever the checks say.
overallHealthy_Always(checks) == TRUE

overallHealthy(checks) ==
    \A k \in DOMAIN checks : checks[k] \in {"ok", "configured", "secure"}

\* app.get('/health')
health(s) ==
    Public(s, "main", "health",
        Response(IF overallHealthy(HealthChecks) THEN 200 ELSE 503,
                 [status |-> "healthy", timestamp |-> Timestamp,
                  checks |-> HealthChecks]))

NotFoundResponse ==
    Response(404, [error |-> "Endpoint not found",
                   message |-> "The endpoint does not exist",
                   available_endpoints |-> "/",
                   timestamp |-> Timestamp])

\* The 404 handler of src/server.js.
notFound(s) == Public(s, "main", "notFound", NotFoundResponse)

NetlifyRootResponse ==
    Response(200, [message |-> "GitHub Backend API", status |-> "running"])

netlify_root(s) == Public(s, "netlify", "root", NetlifyRootResponse)

netlify_status(s) ==
    Public(s, "netlify", "status",
        Response(200, [status |-> "healthy", timestamp |-> Timestamp,
                       github_token_configured |-> Truthy(GITHUB_TOKEN)]))

NetlifyNotFoundResponse == Response(404, [error |-> "Endpoint not found"])

netlify_notFound(s) == Public(s, "netlify", "notFound", NetlifyNotFoundResponse)

\* ------------------------------------------------------------ the Forwarder

ConfigurationError == Response(500, [error |-> "GitHub token not configured"])

Call(op, route, args) == [op |-> op, route |-> route, args |-> args]

\* octokit.rest.users.getAuthenticated() and octokit.rest.rateLimit.get()
GetAuthenticated == Call("users.getAuthenticated", EmptyObj, EmptyObj)
GetRateLimit == Call("rateLimit.get", EmptyObj, EmptyObj)

\* The handler with the validation ahead of the client check.
Begin_ValidatesFirst(s, v, h, invalid, validationError, call) ==
    /\ variant = v
    /\ pc[s] = "handler"
    /\ Handler(variant, req[s]) = h
    /\ IF invalid
       THEN /\ Send(s, validationError)
            /\ UNCHANGED calls
       ELSE IF ~ octokit
       THEN /\ Send(s, ConfigurationError)
            /\ UNCHANGED calls
       ELSE /\ calls' = [calls EXCEPT ![s] = Append(@, call)]
            /\ pc' = [pc EXCEPT ![s] = "awaiting"]
            /\ UNCHANGED resp
    /\ UNCHANGED <<config, process, req, authMethod, outcome>>

\* The handler with the shared client serving one call at a time: the call
\* waits until no other request is suspended on its own.
Begin_Serialised(s, v, h, invalid, validationError, call) ==
    /\ variant = v
    /\ pc[s] = "handler"
    /\ Handler(variant, req[s]) = h
    /\ IF ~ octokit
       THEN /\ Send(s, ConfigurationError)
            /\ UNCHANGED calls
       ELSE IF invalid
       THEN /\ Send(s, validationError)
            /\ UNCHANGED calls
       ELSE /\ \A t \in Slots \ {s} : pc[t] # "awaiting"
            /\ calls' = [calls EXCEPT ![s] = Append(@, call)]
            /\ pc' = [pc EXCEPT ![s] = "awaiting"]
            /\ UNCHANGED resp
    /\ UNCHANGED <<config, process, req, authMethod, outcome>>

\* A protected handler up to its await: the client check, the validation,
\* then the outbound call.
Begin(s, v, h, invalid, validationError, call) ==
    /\ variant = v
    /\ pc[s] = "handler"
    /\ Handler(variant, req[s]) = h
    /\ IF ~ octokit
       THEN /\ Send(s, ConfigurationError)
            /\ UNCHANGED calls
       ELSE IF invalid
       THEN /\ Send(s, validationError)
            /\ UNCHANGED calls
       ELSE /\ calls' = [calls EXCEPT ![s] = Append(@, call)]
            /\ pc' = [pc EXCEPT ![s] = "awaiting"]
            /\ UNCHANGED resp
    /\ UNCHANGED <<config, process, req, authMethod, outcome>>

\* The upstream answers the outbound call, or the call fails.
Upstream(s) ==
    /\ pc[s] = "awaiting"
    /\ \E o \in OutcomesOf(calls[s][Len(calls[s])].op) :
          outcome' = [outcome EXCEPT ![s] = o]
    /\ pc' = [pc EXCEPT ![s] = "resumed"]
    /\ UNCHANGED <<config, process, req, authMethod, calls, resp>>

\* A protected handler after its await: the try branch or the catch branch.
Finish(s, v, h, success, failure) ==
    /\ variant = v
    /\ pc[s] = "resumed"
    /\ Handler(variant, req[s]) = h
    /\ Send(s, IF outcome[s].ok THEN success ELSE failure)
    /\ UNCHANGED <<config, process, req, authMethod, calls, outcome>>


\* ------------------------------------------- the handlers of src/server.js

\* The page size without the cap.
PerPage_Uncapped(query) == NumOr(parseInt(query, "per_page"), 30)

\* Math.min(parseInt(req.query.per_page) || 30, 100)
PerPage(query) == Min(NumOr(parseInt(query, "per_page"), 30), 100)

\* parseInt(req.query.page) || 1
Page(query) == NumOr(parseInt(query, "page"), 1)

\* { success: true, data: data, timestamp: ... }
Envelope(data) == [success |-> TRUE, data |-> data, timestamp |-> Timestamp]

\* { success: true, data: data, count: data.length, timestamp: ... }
ListEnvelope(data) == Spread(Envelope(data), CountField(data))

\* The catch branch: res.status(error.status || 500).json({...})
GitHubError(error) ==
    Response(StatusOr500(error),
        [error |-> "GitHub API Error", message |-> error.message,
         timestamp |-> Timestamp])

\* The catch branch of the handlers that also report status: error.status.
GitHubErrorWithStatus(error) ==
    Response(StatusOr500(error),
        Spread([error |-> "GitHub API Error", message |-> error.message,
                timestamp |-> Timestamp],
               StatusField(error)))

\* app.get('/github/user')
github_user(s) ==
    \/ Begin(s, "main", "user", FALSE, NoResponse, GetAuthenticated)
    \/ Finish(s, "main", "user",
              Response(200, Envelope(outcome[s].data)),
              GitHubErrorWithStatus(outcome[s]))

\* app.get('/github/user/repos')
github_user_repos(s) ==
    LET q == req[s].query IN
    \/ Begin(s, "main", "userRepos", FALSE, NoResponse,
             Call("repos.listForAuthenticatedUser", EmptyObj,
                  [sort |-> Or(Get(q, "sort"), "updated"),
                   direction |-> Or(Get(q, "direction"), "desc"),
                   per_page |-> PerPage(q),
                   page |-> Page(q),
                   visibility |-> Or(Get(q, "visibility"), "all"),
                   type |-> Or(Get(q, "type"), "all")]))
    \/ Finish(s, "main", "userRepos",
              Response(200, ListEnvelope(outcome[s].data)),
              GitHubError(outcome[s]))

\* app.get('/github/user/orgs')
github_user_orgs(s) ==
    LET q == req[s].query IN
    \/ Begin(s, "main", "userOrgs", FALSE, NoResponse,
             Call("orgs.listForAuthenticatedUser", EmptyObj,
                  [per_page |-> PerPage(q), page |-> Page(q)]))
    \/ Finish(s, "main", "userOrgs",
              Response(200, ListEnvelope(outcome[s].data)),
              GitHubError(outcome[s]))

\* app.get('/github/repos')
github_repos(s) ==
    LET q == req[s].query IN
    \/ Begin(s, "main", "repos", FALSE, NoResponse,
             Call("repos.listForAuthenticatedUser", EmptyObj,
                  [sort |-> Or(Get(q, "sort"), "updated"),
                   direction |-> Or(Get(q, "direction"), "desc"),
                   per_page |-> PerPage(q),
                   page |-> Page(q),
                   visibility |-> Or(Get(q, "visibility"), "all")]))
    \/ Finish(s, "main", "repos",
              Response(200,
                  Spread(ListEnvelope(outcome[s].data),
                         [pagination |-> [page |-> Page(q),
                                          per_page |-> PerPage(q)]])),
              GitHubError(outcome[s]))

\* app.get('/github/repo/:owner/:repo')
github_repo(s) ==
    LET ps == req[s].params IN
    \/ Begin(s, "main", "repo", FALSE, NoResponse,
             Call("repos.get", EmptyObj,
                  [owner |-> ps.owner, repo |-> ps.repo]))
    \/ Finish(s, "main", "repo",
              Response(200, Envelope(outcome[s].data)),
              GitHubError(outcome[s]))

\* app.get('/github/repo/:owner/:repo/contents/:path(*)?')
github_repo_contents(s) ==
    LET ps == req[s].params
        q == req[s].query IN
    \/ Begin(s, "main", "contents", FALSE, NoResponse,
             Call("repos.getContent", EmptyObj,
                  [owner |-> ps.owner, repo |-> ps.repo,
                   path |-> Or(ps.path, ""), ref |-> Get(q, "ref")]))
    \/ Finish(s, "main", "contents",
              Response(200, Envelope(outcome[s].data)),
              GitHubError(outcome[s]))

\* app.get('/github/repo/:owner/:repo/commits')
github_repo_commits(s) ==
    LET ps == req[s].params
        q == req[s].query IN
    \/ Begin(s, "main", "commits", FALSE, NoResponse,
             Call("repos.listCommits", EmptyObj,
                  [owner |-> ps.owner, repo |-> ps.repo,
                   sha |-> Get(q, "sha"), path |-> Get(q, "path"),
                   author |-> Get(q, "author"), since |-> Get(q, "since"),
                   until |-> Get(q, "until"),
                   per_page |-> PerPage(q), page |-> Page(q)]))
    \/ Finish(s, "main", "commits",
              Response(200, ListEnvelope(outcome[s].data)),
              GitHubError(outcome[s]))

\* app.get('/github/repo/:owner/:repo/branches')
github_repo_branches(s) ==
    LET ps == req[s].params
        q == req[s].query IN
    \/ Begin(s, "main", "branches", FALSE, NoResponse,
             Call("repos.listBranches", EmptyObj,
                  [owner |-> ps.owner, repo |-> ps.repo,
                   protected |-> Get(q, "protected"),
                   per_page |-> PerPage(q), page |-> Page(q)]))
    \/ Finish(s, "main", "branches",
              Response(200, ListEnvelope(outcome[s].data)),
              GitHubError(outcome[s]))

\* app.get('/github/repo/:owner/:repo/issues')
github_repo_issues(s) ==
    LET ps == req[s].params
        q == req[s].query IN
    \/ Begin(s, "main", "issues", FALSE, NoResponse,
             Call("issues.listForRepo", EmptyObj,
                  [owner |-> ps.owner, repo |-> ps.repo,
                   state |-> Or(Get(q, "state"), "open"),
                   labels |-> Get(q, "labels"),
                   sort |-> Or(Get(q, "sort"), "created"),
                   direction |-> Or(Get(q, "direction"), "desc"),
                   since |-> Get(q, "since"),
                   per_page |-> PerPage(q), page |-> Page(q)]))
    \/ Finish(s, "main", "issues",
              Response(200, ListEnvelope(outcome[s].data)),
              GitHubError(outcome[s]))

\* app.get('/github/repo/:owner/:repo/issues/:issue_number')
github_repo_issue(s) ==
    LET ps == req[s].params IN
    \/ Begin(s, "main", "issue", FALSE, NoResponse,
             Call("issues.get", EmptyObj,
                  [owner |-> ps.owner, repo |-> ps.repo,
                   issue_number |-> parseInt(ps, "issue_number")]))
    \/ Finish(s, "main", "issue",
              Response(200, Envelope(outcome[s].data)),
              GitHubError(outcome[s]))

\* The arguments of octokit.rest.issues.create in src/server.js.
CreateIssueArgs(ps, body) ==
    [owner |-> ps.owner, repo |-> ps.repo,
     title |-> Get(body, "title"), body |-> Get(body, "body"),
     labels |-> Get(body, "labels"), assignees |-> Get(body, "assignees"),
     milestone |-> Get(body, "milestone")]

\* if (!title)
TitleMissing(body) == ~ Truthy(Get(body, "title"))

\* res.status(400).json({ error: 'Validation Error', message: 'Title is required', ... })
TitleRequired ==
    Response(400, [error |-> "Validation Error",
                   message |-> "Title is required",
                   timestamp |-> Timestamp])

\* app.post('/github/repo/:owner/:repo/issues')
github_repo_issues_create(s) ==
    \/ Begin(s, "main", "createIssue", TitleMissing(req[s].body), TitleRequired,
             Call("issues.create", EmptyObj,
                  CreateIssueArgs(req[s].params, req[s].body)))
    \/ Finish(s, "main", "createIssue",
              Response(201,
                  Spread(Envelope(outcome[s].data),
                         [message |-> "Issue created successfully"])),
              GitHubError(outcome[s]))

\* app.patch('/github/repo/:owner/:repo/issues/:issue_number')
github_repo_issues_update(s) ==
    LET ps == req[s].params IN
    \/ Begin(s, "main", "updateIssue", FALSE, NoResponse,
             Call("issues.update", EmptyObj,
                  Spread([owner |-> ps.owner, repo |-> ps.repo,
                          issue_number |-> parseInt(ps, "issue_number")],
                         req[s].body)))
    \/ Finish(s, "main", "updateIssue",
              Response(200,
                  Spread(Envelope(outcome[s].data),
                         [message |-> "Issue updated successfully"])),
              GitHubError(outcome[s]))

\* if (!q)
QueryMissing(query) == ~ Truthy(Get(query, "q"))

QueryRequired ==
    Response(400, [error |-> "Validation Error",
                   message |-> "Search query (q) parameter is required",
                   timestamp |-> Timestamp])

\* The arguments of octokit.rest.search.repos.
SearchArgs(query) ==
    [q |-> Get(query, "q"), sort |-> Get(query, "sort"),
     order |-> Get(query, "order"),
     per_page |-> PerPage(query), page |-> Page(query)]

\* app.get('/github/search/repos')
github_search_repos(s) ==
    \/ Begin(s, "main", "searchRepos", QueryMissing(req[s].query), QueryRequired,
             Call("search.repos", EmptyObj, SearchArgs(req[s].query)))
    \/ Finish(s, "main", "searchRepos",
              Response(200, Envelope(outcome[s].data)),
              GitHubError(outcome[s]))

\* app.get('/github/rate-limit')
github_rate_limit(s) ==
    \/ Begin(s, "main", "rateLimit", FALSE, NoResponse, GetRateLimit)
    \/ Finish(s, "main", "rateLimit",
              Response(200, Envelope(outcome[s].data)),
              GitHubError(outcome[s]))

\* String.prototype.toUpperCase / toLowerCase on the method names.
toUpperCase(m) ==
    CASE m \in {"get", "GET"} -> "GET" [] m \in {"post", "POST"} -> "POST"
      [] m \in {"put", "PUT"} -> "PUT" [] m \in {"patch", "PATCH"} -> "PATCH"
      [] m \in {"delete", "DELETE"} -> "DELETE"

toLowerCase(m) ==
    CASE m \in {"get", "GET"} -> "get" [] m \in {"post", "POST"} -> "post"
      [] m \in {"put", "PUT"} -> "put" [] m \in {"patch", "PATCH"} -> "patch"
      [] m \in {"delete", "DELETE"} -> "delete"

\* `/${path}`
SlashPath(path) == <<"/">> \o path

\* requestConfig of the generic proxy: { method, url, ...req.query }, and
\* data: req.body for POST, PUT and PATCH (req.body is at least {}).
requestConfig(r) ==
    LET method == toUpperCase(r.method)
        base == Spread([method |-> method, url |-> SlashPath(r.params.tail)],
                       r.query)
    IN  IF method \in {"POST", "PUT", "PATCH"}
        THEN Spread(base, [data |-> r.body])
        ELSE base

\* app.all('/github/api/*')
github_api(s) ==
    \/ Begin(s, "main", "api", FALSE, NoResponse,
             Call("request", EmptyObj, requestConfig(req[s])))
    \/ Finish(s, "main", "api",
              Response(200,
                  Spread(Envelope(outcome[s].data),
                         [status |-> outcome[s].status])),
              GitHubErrorWithStatus(outcome[s]))


\* --------------------- the handlers of src/netlify/functions/server.js

\* res.json(data): the payload itself is the body.
NetlifySuccess(data) == Response(200, data)

\* res.status(500).json({ error: error.message })
NetlifyError(error) == Response(500, [error |-> error.message])

\* req.query.per_page || 30: the caller's string as it came, or 30.
RawPerPage(query) ==
    IF Has(query, "per_page") /\ query["per_page"] # << >>
    THEN [isString |-> TRUE, str |-> query["per_page"], n |-> 0]
    ELSE [isString |-> FALSE, str |-> << >>, n |-> 30]

netlify_github_user(s) ==
    \/ Begin(s, "netlify", "user", FALSE, NoResponse, GetAuthenticated)
    \/ Finish(s, "netlify", "user",
              NetlifySuccess(outcome[s].data), NetlifyError(outcome[s]))

netlify_github_repos(s) ==
    \/ Begin(s, "netlify", "repos", FALSE, NoResponse,
             Call("repos.listForAuthenticatedUser", EmptyObj,
                  [sort |-> "updated", per_page |-> RawPerPage(req[s].query)]))
    \/ Finish(s, "netlify", "repos",
              NetlifySuccess(outcome[s].data), NetlifyError(outcome[s]))

netlify_github_repo(s) ==
    LET ps == req[s].params IN
    \/ Begin(s, "netlify", "repo", FALSE, NoResponse,
             Call("repos.get", EmptyObj, [owner |-> ps.owner, repo |-> ps.repo]))
    \/ Finish(s, "netlify", "repo",
              NetlifySuccess(outcome[s].data), NetlifyError(outcome[s]))

netlify_github_repo_issues(s) ==
    LET ps == req[s].params
        q == req[s].query IN
    \/ Begin(s, "netlify", "issues", FALSE, NoResponse,
             Call("issues.listForRepo", EmptyObj,
                  [owner |-> ps.owner, repo |-> ps.repo,
                   state |-> Or(Get(q, "state"), "open"),
                   per_page |-> RawPerPage(q)]))
    \/ Finish(s, "netlify", "issues",
              NetlifySuccess(outcome[s].data), NetlifyError(outcome[s]))

NetlifyTitleRequired == Response(400, [error |-> "Title is required"])

\* The arguments of octokit.rest.issues.create in the netlify application.
NetlifyCreateIssueArgs(ps, body) ==
    [owner |-> ps.owner, repo |-> ps.repo,
     title |-> Get(body, "title"), body |-> Get(body, "body"),
     labels |-> Get(body, "labels")]

netlify_github_repo_issues_create(s) ==
    \/ Begin(s, "netlify", "createIssue", TitleMissing(req[s].body),
             NetlifyTitleRequired,
             Call("issues.create", EmptyObj,
                  NetlifyCreateIssueArgs(req[s].params, req[s].body)))
    \/ Finish(s, "netlify", "createIssue",
              NetlifySuccess(outcome[s].data), NetlifyError(outcome[s]))

\* octokit.request(`${method.toUpperCase()} /${path}`, {...req.query, ...req.body})
NetlifyProxyCall(r) ==
    Call("request",
         [method |-> toUpperCase(toLowerCase(r.method)),
          url |-> SlashPath(r.params.tail)],
         Spread(r.query, r.body))

netlify_github_api(s) ==
    \/ Begin(s, "netlify", "api", FALSE, NoResponse, NetlifyProxyCall(req[s]))
    \/ Finish(s, "netlify", "api",
              NetlifySuccess(outcome[s].data), NetlifyError(outcome[s]))

\* ------------------------------------------------------ the specification

\* One step of the handling of the request in slot s.
Handle(s) ==
    \/ bodyParser(s)
    \/ authenticate(s)
    \/ netlify_authenticate(s)
    \/ root(s)
    \/ status(s)
    \/ health(s)
    \/ notFound(s)
    \/ netlify_root(s)
    \/ netlify_status(s)
    \/ netlify_notFound(s)
    \/ github_user(s)
    \/ github_user_repos(s)
    \/ github_user_orgs(s)
    \/ github_repos(s)
    \/ github_repo(s)
    \/ github_repo_contents(s)
    \/ github_repo_commits(s)
    \/ github_repo_branches(s)
    \/ github_repo_issues(s)
    \/ github_repo_issue(s)
    \/ github_repo_issues_create(s)
    \/ github_repo_issues_update(s)
    \/ github_search_repos(s)
    \/ github_rate_limit(s)
    \/ github_api(s)
    \/ netlify_github_user(s)
    \/ netlify_github_repos(s)
    \/ netlify_github_repo(s)
    \/ netlify_github_repo_issues(s)
    \/ netlify_github_repo_issues_create(s)
    \/ netlify_github_api(s)
    \/ Upstream(s)

\* One step of the client and request of slot s.
Step(s) == Arrive(s) \/ Handle(s)

\* The first slot: the one client of the serial specification.
FirstSlot == CHOOSE s \in Slots : \A t \in Slots : s <= t

\* One client, whose request is handled from arrival to response.
Next == Step(FirstSlot)

Spec == Init /\ [][Next]_vars


\* ---------------------------------------------- the concurrent specification

\* max: 100 requests of one IP in each window of 15 minutes
RateLimitMax == 100

\* message: { error: 'Too many requests from this IP, please try again later.' }
TooManyRequests ==
    Response(429,
        [error |-> "Too many requests from this IP, please try again later."])

\* What the concurrent clients send: every route once with the password of
\* a process configured with one, and a few requests without credentials.
ConcurrentRequests ==
    {Request("GET", p, ParamsOf(p), ("x-password" :> "s3cret"), EmptyObj,
             EmptyObj) : p \in GetPaths \ {"/github/search/repos"}}
    \cup
    {Request("GET", "/github/search/repos", EmptyObj,
             ("x-password" :> "s3cret"), ("q" :> "tetris"), EmptyObj),
     Request("POST", "/github/repo/:owner/:repo/issues", RepoParams,
             ("x-password" :> "s3cret"), EmptyObj, ("title" :> "Bug")),
     Request("PATCH", "/github/repo/:owner/:repo/issues/:issue_number",
             IssueParams, ("x-password" :> "s3cret"), EmptyObj,
             ("state" :> "closed")),
     Request("GET", "/github/user", EmptyObj, EmptyObj, EmptyObj, EmptyObj),
     Request("GET", "/status", EmptyObj, EmptyObj, EmptyObj, EmptyObj)}

\* The server accepts the connection of a client and reads its request.
Connect(s) ==
    /\ pc[s] = "idle"
    /\ \E r \in ConcurrentRequests : req' = [req EXCEPT ![s] = r]
    /\ pc' = [pc EXCEPT ![s] = "accepted"]
    /\ UNCHANGED <<config, process, authMethod, calls, outcome, resp>>

\* app.use(limiter) of src/server.js: the request is counted against its
\* client (every modelled client has the same address), and answered 429
\* once the count is above max. The netlify application has no limiter.
limiter(s) ==
    /\ pc[s] = "accepted"
    /\ IF variant = "main"
       THEN /\ hits' = hits + 1
            /\ IF hits + 1 > RateLimitMax
               THEN Send(s, TooManyRequests)
               ELSE /\ pc' = [pc EXCEPT ![s] = "received"]
                    /\ UNCHANGED resp
       ELSE /\ pc' = [pc EXCEPT ![s] = "received"]
            /\ UNCHANGED <<hits, resp>>
    /\ UNCHANGED <<config, signal, req, authMethod, calls, outcome>>

\* process.exit(0): the process ends at once, and with it every connection:
\* a request that was being handled is dropped without a response, and no
\* client is served any more.
exit(sig) ==
    /\ variant = "main"
    /\ signal = Undefined
    /\ signal' = sig
    /\ pc' = [s \in Slots |->
                CASE pc[s] = "done" -> "done"
                  [] pc[s] = "idle" -> "refused"
                  [] OTHER -> "dropped"]
    /\ UNCHANGED <<config, hits, req, authMethod, calls, outcome, resp>>

\* process.on('SIGTERM', ...) and process.on('SIGINT', ...)
SIGTERM == exit("SIGTERM")
SIGINT == exit("SIGINT")

\* The client's earlier requests in the current window of the limiter.
EarlierHits == {RateLimitMax - NumSlots, RateLimitMax - 1}

ConcurrentInit == Started /\ hits \in EarlierHits

\* Any client's request takes its next step, or a signal arrives.
ConcurrentNext ==
    \/ \E s \in Slots : Connect(s) \/ limiter(s) \/ Handle(s)
    \/ SIGTERM
    \/ SIGINT

SpecConcurrent == ConcurrentInit /\ [][ConcurrentNext]_vars


\* ================================================================ claims

\* The request of slot s matched a route registered with authenticate.
Protected(s) == Handler(variant, req[s]) \notin PublicHandlers

\* The gate has decided the request of slot s.
GateRan(s) ==
    /\ pc[s] \in {"handler", "awaiting", "resumed", "done"}
    /\ Protected(s)
    /\ ~ req[s].malformed

\* The gate answered the request of slot s itself.
GateRejected(s) ==
    /\ GateRan(s)
    /\ pc[s] = "done"
    /\ resp[s].status = 401
    /\ calls[s] = << >>

\* The gate passed the request of slot s on to its handler.
Admitted(s) == GateRan(s) /\ ~ GateRejected(s)

\* The handler of slot s has run up to its await or its early return.
HandlerRan(s) == Admitted(s) /\ pc[s] \in {"awaiting", "resumed", "done"}

\* The header's value when the header is present and not empty, else the
\* query parameter's: "" stands for none at all.
Presented(r, header, param) ==
    IF Has(r.headers, header) /\ r.headers[header] # "" THEN r.headers[header]
    ELSE IF Has(r.query, param) THEN r.query[param]
    ELSE ""

PresentsValidPassword(r) ==
    /\ Presented(r, "x-password", "password") # ""
    /\ Presented(r, "x-password", "password") = BACKEND_PASSWORD

ApiKeyConfigured == API_KEY \notin {Undefined, ""}

PresentsValidApiKey(r) ==
    /\ variant = "main"
    /\ ApiKeyConfigured
    /\ Presented(r, "x-api-key", "api_key") = API_KEY

\* The one rejection body of each application.
UniformRejection(body) ==
    IF variant = "main"
    THEN /\ Has(body, "error") /\ body["error"] = "Unauthorized: Invalid credentials"
         /\ Has(body, "message")
         /\ body["message"] = "Provide password via x-password header/query or API key via x-api-key header/query"
    ELSE /\ Has(body, "error") /\ body["error"] = "Unauthorized: Invalid password"
         /\ ~ Has(body, "message")

\* C1: a request to a protected route that presents neither a valid
\* password nor a valid API key is answered 401 by the gate and goes no
\* further: its handler never runs, no outbound call is made, and the error
\* and message of the 401 body are the same whatever was missing or wrong.
C1_InvalidCredentialsRejected ==
    \A s \in Slots :
        (GateRan(s) /\ ~ PresentsValidPassword(req[s])
                    /\ ~ PresentsValidApiKey(req[s]))
        => /\ pc[s] = "done"
           /\ resp[s].status = 401
           /\ calls[s] = << >>
           /\ authMethod[s] = Undefined
           /\ UniformRejection(resp[s].body)

\* A wrong password in the header and a wrong key in the query, with an API
\* key configured, were rejected by the gate of src/server.js.
C1_Witness ==
    \E s \in Slots :
        /\ variant = "main" /\ ApiKeyConfigured
        /\ GateRejected(s)
        /\ Get(req[s].headers, "x-password") \notin {Undefined, "", BACKEND_PASSWORD}
        /\ Get(req[s].query, "api_key") = "zzz"

\* C2: a request to a protected route that presents the configured password
\* is passed on by the gate, never answered 401 by it, whatever API key it
\* carries and whether or not an API key is configured.
C2_ValidPasswordAdmitted ==
    \A s \in Slots :
        (GateRan(s) /\ PresentsValidPassword(req[s])) => Admitted(s)

\* The configured password came in the query, with a wrong API key in the
\* header, and the handler ran.
C2_Witness ==
    \E s \in Slots :
        /\ HandlerRan(s)
        /\ ~ Has(req[s].headers, "x-password")
        /\ Get(req[s].query, "password") = BACKEND_PASSWORD
        /\ Get(req[s].headers, "x-api-key") = "zzz"

\* C3: with no upstream token in the environment, every admitted request on
\* every protected route, whatever its method, query and body, is answered
\* 500 "GitHub token not configured" and no outbound call is made for it.
C3_NoClientConfigurationError ==
    \A s \in Slots :
        GITHUB_TOKEN \in {Undefined, ""}
        => /\ calls[s] = << >>
           /\ HandlerRan(s)
              => /\ pc[s] = "done"
                 /\ resp[s].status = 500
                 /\ Has(resp[s].body, "error")
                 /\ resp[s].body["error"] = "GitHub token not configured"

\* Without a token, an admitted issue creation without a title got the 500.
C3_Witness ==
    \E s \in Slots :
        /\ GITHUB_TOKEN = Undefined
        /\ HandlerRan(s)
        /\ Handler(variant, req[s]) = "createIssue"
        /\ ~ Has(req[s].body, "title")
        /\ resp[s].status = 500


TokenConfigured == GITHUB_TOKEN \notin {Undefined, ""}

\* The handler of slot s is h, it has run, and an upstream client exists.
Forwarding(s, h) ==
    HandlerRan(s) /\ Handler(variant, req[s]) = h /\ TokenConfigured

\* The field f of the request body is absent or the empty string.
AbsentOrEmpty(obj, f) == ~ Has(obj, f) \/ obj[f] = ""

\* The argument f of the call is the field f of the object, absent when
\* the field is absent.
PassedThrough(call, obj, f) ==
    IF Has(obj, f)
    THEN Has(call.args, f) /\ call.args[f] = obj[f]
    ELSE ~ Has(call.args, f) \/ call.args[f] = Undefined

IssueFields == {"title", "body", "labels", "assignees", "milestone"}

\* C4: an admitted issue creation, with an upstream client: a title that is
\* absent or empty gives 400 and no outbound call; any other title gives
\* exactly one create-issue call whose title, body, labels, assignees and
\* milestone are those of the request body.
C4_IssueCreation ==
    \A s \in Slots :
        Forwarding(s, "createIssue")
        => IF AbsentOrEmpty(req[s].body, "title")
           THEN pc[s] = "done" /\ resp[s].status = 400 /\ calls[s] = << >>
           ELSE /\ Len(calls[s]) = 1
                /\ calls[s][1].op = "issues.create"
                /\ \A f \in IssueFields : PassedThrough(calls[s][1], req[s].body, f)

\* C4 restricted to src/server.js, where it holds.
C4_IssueCreationMain == variant = "main" => C4_IssueCreation

\* A decimal integer written out: an optional minus sign, then digits only.
IsNumber(str) ==
    LET digits == IF str # << >> /\ Head(str) = "-" THEN Tail(str) ELSE str
    IN  /\ digits # << >>
        /\ \A i \in 1 .. Len(digits) : digits[i] \in DigitChars

NumberValue(str) ==
    IF Head(str) = "-" THEN - DigitsPrefix(Tail(str), 0) ELSE DigitsPrefix(str, 0)

\* The query term is absent or empty: 400, no outbound call.
SearchRejected(s) ==
    pc[s] = "done" /\ resp[s].status = 400 /\ calls[s] = << >>

\* C5 as claimed: with a query term, one search call whose per_page is
\* min(requested, 100), and 30 when per_page is absent or not a number.
C5_SearchAsClaimed ==
    \A s \in Slots :
        Forwarding(s, "searchRepos")
        => IF AbsentOrEmpty(req[s].query, "q")
           THEN SearchRejected(s)
           ELSE /\ Len(calls[s]) = 1
                /\ calls[s][1].op = "search.repos"
                /\ calls[s][1].args.per_page =
                      IF Has(req[s].query, "per_page")
                         /\ IsNumber(req[s].query["per_page"])
                      THEN Min(NumberValue(req[s].query["per_page"]), 100)
                      ELSE 30

\* C5 as amended: with a query term, one search call whose per_page is
\* min(n, 100), n being the integer the requested per_page begins with
\* (an optional sign and the digits after it, the rest ignored), and 30
\* when per_page is absent, begins with no integer, or n is 0; it never
\* exceeds 100.
C5_Search ==
    \A s \in Slots :
        Forwarding(s, "searchRepos")
        => IF AbsentOrEmpty(req[s].query, "q")
           THEN SearchRejected(s)
           ELSE /\ Len(calls[s]) = 1
                /\ calls[s][1].op = "search.repos"
                /\ calls[s][1].args.q = req[s].query["q"]
                /\ calls[s][1].args.per_page <= 100
                /\ LET n == parseInt(req[s].query, "per_page")
                   IN  calls[s][1].args.per_page =
                          IF n.nan \/ n.n = 0 THEN 30 ELSE Min(n.n, 100)

\* A search for "tetris" asking 500 per page was forwarded with 100.
C5_Witness ==
    \E s \in Slots :
        /\ Forwarding(s, "searchRepos")
        /\ Get(req[s].query, "q") = "tetris"
        /\ Has(req[s].query, "per_page")
        /\ req[s].query["per_page"] = <<"5", "0", "0">>
        /\ Len(calls[s]) = 1
        /\ calls[s][1].args.per_page = 100

\* The outbound call of slot s has been answered and the response sent.
Answered(s) == pc[s] = "done" /\ Len(calls[s]) >= 1

\* C6: whenever the outbound call succeeds with a sequence of N items, the
\* response has success = true, count = N and data equal to that sequence,
\* on every operation, the generic proxy included.
C6_SequenceEnvelope ==
    \A s \in Slots :
        (Answered(s) /\ outcome[s].ok /\ outcome[s].data.isArray)
        => /\ Has(resp[s].body, "success") /\ resp[s].body["success"] = TRUE
           /\ Has(resp[s].body, "count")
           /\ resp[s].body["count"] = Len(outcome[s].data.items)
           /\ Has(resp[s].body, "data")
           /\ resp[s].body["data"] = outcome[s].data

\* The request of slot s fails its handler's validation.
FailsValidation(s) ==
    \/ Handler(variant, req[s]) = "createIssue" /\ AbsentOrEmpty(req[s].body, "title")
    \/ Handler(variant, req[s]) = "searchRepos" /\ AbsentOrEmpty(req[s].query, "q")

\* C7: a failed outbound call is answered with the upstream's status when
\* the failure carries one and 500 otherwise, and with the upstream's
\* message; it is not retried: at most one outbound call per request, and
\* exactly one when there is no configuration or validation error.
C7_UpstreamFailure ==
    \A s \in Slots :
        /\ Len(calls[s]) <= 1
        /\ (HandlerRan(s) /\ TokenConfigured /\ ~ FailsValidation(s))
           => Len(calls[s]) = 1
        /\ (Answered(s) /\ ~ outcome[s].ok)
           => /\ resp[s].status =
                    IF outcome[s].hasStatus THEN outcome[s].status ELSE 500
              /\ \E k \in {"message", "error"} \cap DOMAIN resp[s].body :
                    resp[s].body[k] = outcome[s].message

\* C7 restricted to src/server.js, where it holds.
C7_UpstreamFailureMain == variant = "main" => C7_UpstreamFailure


\* The request of slot s is a GET of path p and has been answered.
Got(s, p) ==
    pc[s] = "done" /\ req[s].method = "GET" /\ req[s].path = p

ReportsToken(body) ==
    /\ Has(body, "github_token_configured")
    /\ body["github_token_configured"] = TokenConfigured

\* C8 as claimed: the health endpoints answer 200 to every request,
\* whatever the credentials and the configured password, and report
\* github_token_configured.
C8_HealthAsClaimed ==
    \A s \in Slots :
        (Got(s, "/status") \/ Got(s, "/health"))
        => resp[s].status = 200 /\ ReportsToken(resp[s].body)

\* C8 as amended: GET /status answers 200 to every request, whatever the
\* credentials and the configured password, and reports
\* github_token_configured; GET /health of src/server.js answers every
\* request whatever its credentials, with 200 when the token is set and the
\* password is not the default one and with 503 otherwise, and reports the
\* token under checks.github_api; the netlify application has no /health.
C8_Health ==
    \A s \in Slots :
        /\ Got(s, "/status")
           => resp[s].status = 200 /\ ReportsToken(resp[s].body)
        /\ (Got(s, "/health") /\ variant = "main")
           => /\ resp[s].status =
                    IF TokenConfigured /\ BACKEND_PASSWORD # DefaultPassword
                    THEN 200 ELSE 503
              /\ resp[s].body["checks"].github_api =
                    IF TokenConfigured THEN "configured" ELSE "not_configured"
        /\ (Got(s, "/health") /\ variant = "netlify") => resp[s].status = 404

\* /status answered 200 and "no token" to a request with a wrong password.
C8_Witness ==
    \E s \in Slots :
        /\ Got(s, "/status")
        /\ ~ TokenConfigured
        /\ Get(req[s].headers, "x-password") \notin {Undefined, "", BACKEND_PASSWORD}
        /\ resp[s].status = 200
        /\ ReportsToken(resp[s].body)

\* C9: every error response carries a timestamp and an error label.
C9_ErrorsCarryTimestampAndLabel ==
    \A s \in Slots :
        (pc[s] = "done" /\ resp[s].status >= 400)
        => Has(resp[s].body, "timestamp") /\ Has(resp[s].body, "error")

MutatingMethods == {"POST", "PUT", "PATCH"}

\* The method, the path, the parameters and the body of the outbound call
\* of the generic proxy: src/server.js passes one object, the netlify
\* application a route and its parameters (which octokit sends as the body
\* of a mutating request).
OutMethod(call) ==
    IF DOMAIN call.route = {} THEN call.args["method"] ELSE call.route.method
OutUrl(call) ==
    IF DOMAIN call.route = {} THEN call.args["url"] ELSE call.route.url
CarriesBody(call, m, body) ==
    IF DOMAIN call.route = {}
    THEN IF m \in MutatingMethods
         THEN Has(call.args, "data") /\ call.args["data"] = body
         ELSE ~ Has(call.args, "data")
    ELSE m \in MutatingMethods => call.args = body

\* C10: the one outbound call of an admitted generic-proxy request has the
\* inbound method and the path "/" + trailing path whatever the query
\* parameters are called, carries every query parameter, carries the body
\* verbatim for POST, PUT and PATCH and no body for the other methods.
C10_ProxyForwardsVerbatim ==
    \A s \in Slots :
        Forwarding(s, "api")
        => /\ Len(calls[s]) = 1
           /\ OutMethod(calls[s][1]) = req[s].method
           /\ OutUrl(calls[s][1]) = <<"/">> \o req[s].params.tail
           /\ \A k \in DOMAIN req[s].query :
                 Has(calls[s][1].args, k) /\ calls[s][1].args[k] = req[s].query[k]
           /\ CarriesBody(calls[s][1], req[s].method, req[s].body)

\* C10 for the requests whose query names none of method, url and data, in
\* src/server.js: there the call is as claimed.
C10_ProxyMainPlainQuery ==
    \A s \in Slots :
        (variant = "main" /\ Forwarding(s, "api")
         /\ DOMAIN req[s].query \cap {"method", "url", "data"} = {})
        => /\ Len(calls[s]) = 1
           /\ OutMethod(calls[s][1]) = req[s].method
           /\ OutUrl(calls[s][1]) = <<"/">> \o req[s].params.tail
           /\ \A k \in DOMAIN req[s].query :
                 Has(calls[s][1].args, k) /\ calls[s][1].args[k] = req[s].query[k]
           /\ CarriesBody(calls[s][1], req[s].method, req[s].body)


\* ------------------------------------------------------------------- C11

\* The request of slot s was being handled when the process exited, and
\* never got its response.
Dropped(s) == pc[s] = "dropped"

\* C11: on SIGTERM or SIGINT the process exits only after every request that
\* was in flight at the signal has received its response: once the process
\* has exited, no request is left without the response it was waiting for.
C11_GracefulShutdown ==
    signal # Undefined => \A s \in Slots : ~ Dropped(s)

\* ------------------------------------------------------------------- C12

\* What the gate decided for the request of slot s, as the claim has it: the
\* password first, then the API key, and the first success names the tag.
TaggedAsClaimed(s) ==
    /\ PresentsValidPassword(req[s])
         => Admitted(s) /\ authMethod[s] = "password"
    /\ (~ PresentsValidPassword(req[s]) /\ PresentsValidApiKey(req[s]))
         => Admitted(s) /\ authMethod[s] = "api_key"
    /\ authMethod[s] = "api_key"
         => /\ ~ PresentsValidPassword(req[s])
            /\ ApiKeyConfigured
            /\ Presented(req[s], "x-api-key", "api_key") = API_KEY
    /\ authMethod[s] = "password" => PresentsValidPassword(req[s])

\* The step that admits the request of slot s changes nothing of it but the
\* tag: the request is as it was sent, and nothing was called or answered.
AdmissionOnlyTags ==
    \A s \in Slots :
        (pc[s] = "routed" /\ pc'[s] = "handler")
        => /\ req'[s] = req[s]
           /\ calls'[s] = calls[s]
           /\ outcome'[s] = outcome[s]
           /\ resp'[s] = resp[s]

\* C12: with a password and an API key supplied and one of them valid the
\* gate admits; the password is checked first and the first success decides
\* the tag ('password' whenever the password is valid, 'api_key' only when it
\* is not and the supplied key equals the configured one), and admission
\* changes nothing on the request except the tag.
C12_FirstSuccessTags ==
    /\ [](\A s \in Slots : GateRan(s) => TaggedAsClaimed(s))
    /\ [][AdmissionOnlyTags]_vars

\* The same of the gate of src/server.js alone.
C12_FirstSuccessTagsMain ==
    /\ [](\A s \in Slots : (variant = "main" /\ GateRan(s)) => TaggedAsClaimed(s))
    /\ [][AdmissionOnlyTags]_vars

\* ------------------------------------------------------------------- C13

\* The operations that accept a page size.
PagedHandlers ==
    {"userRepos", "userOrgs", "repos", "commits", "branches", "issues",
     "searchRepos", "api"}

\* The page size of the outbound call of slot s as the upstream reads it: a
\* number, or NaN when the call carries none (or carries no number).
PageSizeSent(s) ==
    LET args == calls[s][1].args
    IN  IF Handler(variant, req[s]) = "api"
        THEN parseInt(args, "per_page")
        ELSE IF variant = "netlify"
        THEN IF args.per_page.isString
             THEN parseIntStr(args.per_page.str)
             ELSE Num(args.per_page.n)
        ELSE Num(args.per_page)

\* The defaults of the sort, direction and state parameters of an operation.
DocumentedDefaults(h) ==
    CASE h \in {"userRepos", "repos"} /\ variant = "main" ->
            [sort |-> "updated", direction |-> "desc"]
      [] h = "issues" /\ variant = "main" ->
            [state |-> "open", sort |-> "created", direction |-> "desc"]
      [] h = "repos" /\ variant = "netlify" -> [sort |-> "updated"]
      [] h = "issues" /\ variant = "netlify" -> [state |-> "open"]
      [] OTHER -> EmptyObj

\* C13: on every operation that accepts a page size, whatever per_page the
\* caller supplies, the page size of the outbound call never exceeds 100;
\* without per_page the default 30 is sent, and absent sort, direction and
\* state parameters are replaced by their defaults.
C13_PageSizeClamped ==
    \A s \in Slots :
        (/\ HandlerRan(s)
         /\ Handler(variant, req[s]) \in PagedHandlers
         /\ calls[s] # << >>)
        => LET size == PageSizeSent(s)
               defaults == DocumentedDefaults(Handler(variant, req[s]))
           IN  /\ ~ size.nan => size.n <= 100
               /\ ~ Has(req[s].query, "per_page") => (~ size.nan /\ size.n = 30)
               /\ \A k \in DOMAIN defaults :
                     ~ Has(req[s].query, k)
                     => calls[s][1].args[k] = defaults[k]

\* The same of the typed operations of src/server.js alone.
C13_PageSizeClampedMain ==
    \A s \in Slots :
        (/\ HandlerRan(s)
         /\ variant = "main"
         /\ Handler(variant, req[s]) \in PagedHandlers \ {"api"}
         /\ calls[s] # << >>)
        => LET size == PageSizeSent(s)
               defaults == DocumentedDefaults(Handler(variant, req[s]))
           IN  /\ ~ size.nan /\ size.n <= 100
               /\ ~ Has(req[s].query, "per_page") => size.n = 30
               /\ \A k \in DOMAIN defaults :
                     ~ Has(req[s].query, k)
                     => calls[s][1].args[k] = defaults[k]

\* ------------------------------------------------------------------- C14

\* What one request owns.
Own(s) == <<pc[s], req[s], authMethod[s], calls[s], outcome[s], resp[s]>>

\* The request of slot s has been answered by the application.
Responded(s) == pc[s] = "done"

\* The limiter answered the request of slot s.
Limited(s) == Responded(s) /\ resp[s] = TooManyRequests

\* Two answered requests with the same fields and the same outcome of their
\* outbound calls have the same response.
SameRequestSameResponse(s, t) ==
    (req[s] = req[t] /\ outcome[s] = outcome[t]) => resp[s] = resp[t]

\* While the process runs, a request suspended on its outbound call leaves
\* every other unanswered request able to take its next step.
NeverBlocked ==
    \A s, t \in Slots :
        (s # t /\ pc[s] = "awaiting" /\ signal = Undefined /\ ~ Responded(t))
        => ENABLED (Connect(t) \/ limiter(t) \/ Handle(t))

\* No step writes to the configuration or to the upstream client.
ConfigurationReadOnly == config' = config

\* A step of a running process belongs to one request, and a response once
\* sent is never changed.
OneRequestPerStep ==
    /\ signal' = signal
       => \A s, t \in Slots : (Own(s)' # Own(s) /\ Own(t)' # Own(t)) => s = t
    /\ \A s \in Slots : Responded(s) => Own(s)' = Own(s)

PresentsValidCredential(s) ==
    PresentsValidPassword(req[s]) \/ PresentsValidApiKey(req[s])

\* The first failing check alone decided the response of slot s: the
\* credential check (401), then the client check (500), then the validation
\* (400), and only then the outbound call.
FirstFailingCheckDecides(s) ==
    IF ~ PresentsValidCredential(s)
    THEN resp[s].status = 401 /\ calls[s] = << >>
    ELSE IF ~ octokit
    THEN resp[s].status = 500 /\ calls[s] = << >>
    ELSE calls[s] = << >> => resp[s].status = 400

\* No outbound call is made and no 400 or 500 is sent for a request that was
\* not admitted.
NothingBeforeAdmission(s) ==
    ~ Admitted(s)
    => /\ calls[s] = << >>
       /\ Responded(s) => resp[s].status \notin {400, 500}

\* A request in progress has a next step, and a response once sent is final.
OneResponse(s) ==
    /\ pc[s] \notin {"idle", "done"} => ENABLED Handle(s)

ResponseIsFinal ==
    \A s \in Slots : Responded(s) => (resp'[s] = resp[s] /\ pc'[s] = pc[s])

\* C15: on every protected route the checks run in a fixed order and the
\* first failing one alone decides the response: credentials (401), then the
\* upstream client (500), then the mandatory fields (400), then the outbound
\* call; so no outbound call and no 400 or 500 is ever produced for a request
\* that was not admitted, and each request receives exactly one response.
C15_ChecksInOrder ==
    /\ [](\A s \in Slots :
             (Protected(s) /\ pc[s] # "idle")
             => /\ Responded(s) => FirstFailingCheckDecides(s)
                /\ NothingBeforeAdmission(s)
                /\ OneResponse(s))
    /\ [][ResponseIsFinal]_vars

\* The same of the requests whose body the body parser accepts.
C15_ChecksInOrderOnceParsed ==
    /\ [](\A s \in Slots :
             (Protected(s) /\ pc[s] # "idle" /\ ~ req[s].malformed)
             => /\ Responded(s) => FirstFailingCheckDecides(s)
                /\ NothingBeforeAdmission(s)
                /\ OneResponse(s))
    /\ [][ResponseIsFinal]_vars

====
